---- MODULE Spec2Model ----
(***************************************************************************)
(* Model of lib/version/semver.go (package lib): the semantic version      *)
(* value, its parser, the Increment state machine and the two comparison   *)
(* entry points.                                                           *)
(*                                                                         *)
(* A Go string is a sequence of one-character strings.  A uint64 is three  *)
(* limbs <<hi, mid, lo>> in base 10^8 (value hi*10^16 + mid*10^8 + lo), so *)
(* that the full 64-bit range, its maximum and its wrap-around exist in    *)
(* the model.  A Go slice is a sequence; the Go index i is the sequence    *)
(* index i+1, and an index outside 0..len-1 is a run-time panic.           *)
(***************************************************************************)
EXTENDS Integers, Sequences, FiniteSets

(***************************************************************************)
(* Characters and strings                                                  *)
(***************************************************************************)
DigitChars == <<"0", "1", "2", "3", "4", "5", "6", "7", "8", "9">>

UpperChars == <<"A", "B", "C", "D", "E", "F", "G", "H", "I", "J", "K", "L", "M",
                "N", "O", "P", "Q", "R", "S", "T", "U", "V", "W", "X", "Y", "Z">>

LowerChars == <<"a", "b", "c", "d", "e", "f", "g", "h", "i", "j", "k", "l", "m",
                "n", "o", "p", "q", "r", "s", "t", "u", "v", "w", "x", "y", "z">>

\* The characters of the grammar in ASCII order: '+' 43, '-' 45, '.' 46,
\* digits 48..57, upper case 65..90, lower case 97..122.
AsciiOrder == <<"+", "-", ".">> \o DigitChars \o UpperChars \o LowerChars

Range(f) == {f[i] : i \in DOMAIN f}

IsDigit(c) == c \in Range(DigitChars)

IsIdentChar(c) == c \in Range(DigitChars) \cup Range(UpperChars) \cup Range(LowerChars) \cup {"-"}

DigitVal(c) == (CHOOSE i \in 1..10 : DigitChars[i] = c) - 1

DigitChar(d) == DigitChars[d + 1]

Ord(c) == CHOOSE i \in DOMAIN AsciiOrder : AsciiOrder[i] = c

AllDigits(s) == Len(s) > 0 /\ \A i \in 1..Len(s) : IsDigit(s[i])

\* First position of character c in s, 0 when absent.
IndexOf(s, c) ==
    IF \E i \in 1..Len(s) : s[i] = c
    THEN CHOOSE i \in 1..Len(s) : s[i] = c /\ \A j \in 1..(i - 1) : s[j] # c
    ELSE 0

\* strings.Split(s, sep) for a one-character separator.
RECURSIVE Split(_, _)
Split(s, sep) ==
    LET k == IndexOf(s, sep) IN
    IF k = 0 THEN <<s>>
    ELSE <<SubSeq(s, 1, k - 1)>> \o Split(SubSeq(s, k + 1, Len(s)), sep)

\* Byte-wise comparison of two strings: -1, 0 or 1.
RECURSIVE StrCompare(_, _)
StrCompare(a, b) ==
    IF Len(a) = 0 /\ Len(b) = 0 THEN 0
    ELSE IF Len(a) = 0 THEN -1
    ELSE IF Len(b) = 0 THEN 1
    ELSE IF Ord(a[1]) < Ord(b[1]) THEN -1
    ELSE IF Ord(a[1]) > Ord(b[1]) THEN 1
    ELSE StrCompare(Tail(a), Tail(b))

(***************************************************************************)
(* uint64 in three base-10^8 limbs                                         *)
(***************************************************************************)
LimbBase == 10000 * 10000

\* 2^64 - 1 = 18446744073709551615
MaxUint64 == <<1844, 67440737, 9551615>>

U64(n) == <<0, 0, n>>

U64Less(a, b) ==
    \/ a[1] < b[1]
    \/ a[1] = b[1] /\ a[2] < b[2]
    \/ a[1] = b[1] /\ a[2] = b[2] /\ a[3] < b[3]

U64Compare(a, b) == IF U64Less(a, b) THEN -1 ELSE IF U64Less(b, a) THEN 1 ELSE 0

\* x + 1 on a uint64: Go's ++ wraps to 0 at the maximum.
Inc64(x) ==
    IF x = MaxUint64 THEN <<0, 0, 0>>
    ELSE IF x[3] + 1 < LimbBase THEN <<x[1], x[2], x[3] + 1>>
    ELSE IF x[2] + 1 < LimbBase THEN <<x[1], x[2] + 1, 0>>
    ELSE <<x[1] + 1, 0, 0>>

\* acc * 10 + d, not yet reduced to 64 bits (the top limb may exceed its range).
MulAdd10(acc, d) ==
    LET lo  == acc[3] * 10 + d
        mid == acc[2] * 10 + (lo \div LimbBase)
        hi  == acc[1] * 10 + (mid \div LimbBase)
    IN  <<hi, mid % LimbBase, lo % LimbBase>>

\* strconv.ParseUint(s, 10, 64): the value and the error ("" for nil).  A string
\* that is not all digits is a syntax error with value 0; a value beyond 64 bits is
\* a range error whose value is the maximum uint64.
RECURSIVE ParseDigits(_, _)
ParseDigits(s, acc) ==
    IF Len(s) = 0 THEN [val |-> acc, err |-> ""]
    ELSE LET n == MulAdd10(acc, DigitVal(s[1])) IN
         IF U64Less(MaxUint64, n) THEN [val |-> MaxUint64, err |-> "range"]
         ELSE ParseDigits(Tail(s), n)

ParseUint(s) ==
    IF ~AllDigits(s) THEN [val |-> U64(0), err |-> "syntax"]
    ELSE ParseDigits(s, U64(0))

\* The decimal digits of a natural number below 10^9.
RECURSIVE NatDigits(_)
NatDigits(n) ==
    IF n < 10 THEN <<DigitChar(n)>>
    ELSE NatDigits(n \div 10) \o <<DigitChar(n % 10)>>

\* A limb as exactly eight digits.
RECURSIVE PadLimb(_, _)
PadLimb(n, width) ==
    IF width = 0 THEN <<>>
    ELSE PadLimb(n \div 10, width - 1) \o <<DigitChar(n % 10)>>

\* strconv.FormatUint(x, 10)
FormatUint(x) ==
    IF x[1] > 0 THEN NatDigits(x[1]) \o PadLimb(x[2], 8) \o PadLimb(x[3], 8)
    ELSE IF x[2] > 0 THEN NatDigits(x[2]) \o PadLimb(x[3], 8)
    ELSE NatDigits(x[3])

(***************************************************************************)
(* Identifier (the type, NewIdentifier, Compare and parseIdentifiers are   *)
(* declared in another file of the package)                                *)
(***************************************************************************)
\* A token is numeric when it consists of digits only and has no leading zero.
IsNumericToken(tok) == AllDigits(tok) /\ (Len(tok) = 1 \/ tok[1] # "0")

NewIdentifier(tok) ==
    [Raw       |-> tok,
     IsNumeric |-> IsNumericToken(tok),
     Num       |-> IF IsNumericToken(tok) THEN ParseUint(tok).val ELSE U64(0)]

\* Identifier.Compare: numeric identifiers by value, a numeric identifier before
\* a non-numeric one, non-numeric identifiers byte-wise by their text.
IdentifierCompare(a, b) ==
    IF a.IsNumeric /\ b.IsNumeric THEN U64Compare(a.Num, b.Num)
    ELSE IF a.IsNumeric THEN -1
    ELSE IF b.IsNumeric THEN 1
    ELSE StrCompare(a.Raw, b.Raw)

\* parseIdentifiers: the string split on '.', each token an Identifier.
parseIdentifiers(s) ==
    LET toks == Split(s, ".") IN [i \in 1..Len(toks) |-> NewIdentifier(toks[i])]

(***************************************************************************)
(* VerReg, the grammar MAJOR.MINOR.PATCH[-PRERELEASE][+BUILD]              *)
(***************************************************************************)
\* 0|[1-9]\d*
IsNumericGroup(s) == IsNumericToken(s)

\* 0|[1-9]\d*|\d*[a-zA-Z-][0-9a-zA-Z-]*
IsPreReleaseToken(tok) ==
    /\ Len(tok) > 0
    /\ \A i \in 1..Len(tok) : IsIdentChar(tok[i])
    /\ (AllDigits(tok) => IsNumericToken(tok))

\* [0-9a-zA-Z-]+
IsBuildToken(tok) == Len(tok) > 0 /\ \A i \in 1..Len(tok) : IsIdentChar(tok[i])

\* reg.MatchString and reg.FindStringSubmatch: whether ver matches, and the five
\* capture groups (an absent optional group is the empty string).
VerRegMatch(ver) ==
    LET plus  == IndexOf(ver, "+")
        head  == IF plus = 0 THEN ver ELSE SubSeq(ver, 1, plus - 1)
        build == IF plus = 0 THEN <<>> ELSE SubSeq(ver, plus + 1, Len(ver))
        dash  == IndexOf(head, "-")
        core  == IF dash = 0 THEN head ELSE SubSeq(head, 1, dash - 1)
        pre   == IF dash = 0 THEN <<>> ELSE SubSeq(head, dash + 1, Len(head))
        nums  == Split(core, ".")
        preT  == Split(pre, ".")
        bldT  == Split(build, ".")
        ok    == /\ Len(nums) = 3
                 /\ \A i \in 1..3 : IsNumericGroup(nums[i])
                 /\ (dash # 0 => \A i \in 1..Len(preT) : IsPreReleaseToken(preT[i]))
                 /\ (plus # 0 => \A i \in 1..Len(bldT) : IsBuildToken(bldT[i]))
    IN  IF ok
        THEN [ok |-> TRUE, g1 |-> nums[1], g2 |-> nums[2], g3 |-> nums[3],
              g4 |-> pre, g5 |-> build]
        ELSE [ok |-> FALSE, g1 |-> <<>>, g2 |-> <<>>, g3 |-> <<>>,
              g4 |-> <<>>, g5 |-> <<>>]

(***************************************************************************)
(* version, parse, NewVersion                                              *)
(***************************************************************************)
\* version{}: the zero value of the struct (a nil slice has length 0).
ZeroVersion ==
    [major |-> U64(0), minor |-> U64(0), patch |-> U64(0),
     preRelease |-> <<>>, build |-> <<>>]

\* parse with the mismatch branch returning a nil error (fault injected for C6).
parseNoErrorOnMismatch(ver) ==
    LET m == VerRegMatch(ver) IN
    IF ~m.ok THEN [v |-> ZeroVersion, err |-> FALSE]
    ELSE [v |-> [major      |-> ParseUint(m.g1).val,
                 minor      |-> ParseUint(m.g2).val,
                 patch      |-> ParseUint(m.g3).val,
                 preRelease |-> IF m.g4 # <<>> THEN parseIdentifiers(m.g4) ELSE <<>>,
                 build      |-> IF m.g5 # <<>> THEN parseIdentifiers(m.g5) ELSE <<>>],
          err |-> FALSE]

\* parse: the version and whether the returned error is non-nil.  The errors
\* of the three ParseUint calls are discarded (assigned to _).
parse(ver) ==
    LET m == VerRegMatch(ver) IN
    IF ~m.ok THEN [v |-> ZeroVersion, err |-> TRUE]
    ELSE [v |-> [major      |-> ParseUint(m.g1).val,
                 minor      |-> ParseUint(m.g2).val,
                 patch      |-> ParseUint(m.g3).val,
                 preRelease |-> IF m.g4 # <<>> THEN parseIdentifiers(m.g4) ELSE <<>>,
                 build      |-> IF m.g5 # <<>> THEN parseIdentifiers(m.g5) ELSE <<>>],
          err |-> FALSE]

\* NewVersion: the handle returned, and whether log.Error was called; the error
\* itself is not returned.
NewVersion(ver) ==
    LET r == parse(ver) IN [v |-> r.v, logged |-> r.err]

(***************************************************************************)
(* Increment                                                               *)
(***************************************************************************)
\* The public release types, and the internal one.
PublicReleaseTypes ==
    {"Major", "Minor", "Patch", "PreMajor", "PreMinor", "PrePatch", "PreRelease"}

isPreRelease(v) == Len(v.preRelease) > 0

\* resetPreRelease clearing the build slice as well (fault injected for C10).
resetPreReleaseAndBuild(v) == [v EXCEPT !.preRelease = <<>>, !.build = <<>>]

resetPreRelease(v) == [v EXCEPT !.preRelease = <<>>]

\* case Major without its condition: major++ always (fault injected for C9).
MajorCaseAlwaysIncrements(v) ==
    resetPreRelease([v EXCEPT !.major = Inc64(v.major), !.minor = U64(0), !.patch = U64(0)])

\* case Major
MajorCase(v) ==
    LET v1 == IF v.minor # U64(0) \/ v.patch # U64(0) \/ ~isPreRelease(v)
              THEN [v EXCEPT !.major = Inc64(v.major)]
              ELSE v
    IN  resetPreRelease([v1 EXCEPT !.minor = U64(0), !.patch = U64(0)])

\* case Minor without `v.patch != 0 ||` (fault injected for C4).
MinorCaseIgnoresPatch(v) ==
    LET v1 == IF ~isPreRelease(v)
              THEN [v EXCEPT !.minor = Inc64(v.minor)]
              ELSE v
    IN  resetPreRelease([v1 EXCEPT !.patch = U64(0)])

\* case Minor
MinorCase(v) ==
    LET v1 == IF v.patch # U64(0) \/ ~isPreRelease(v)
              THEN [v EXCEPT !.minor = Inc64(v.minor)]
              ELSE v
    IN  resetPreRelease([v1 EXCEPT !.patch = U64(0)])

\* case Patch
PatchCase(v) ==
    LET v1 == IF ~isPreRelease(v)
              THEN [v EXCEPT !.patch = Inc64(v.patch)]
              ELSE v
    IN  resetPreRelease(v1)

\* The loop `for ; i >= 0; i--` of case pre, entered with Go index i: the slice
\* after the loop, the value of i after it, and whether indexing panicked.
RECURSIVE ScanNumeric(_, _)
ScanNumeric(pr, i) ==
    IF i < 0 THEN [pr |-> pr, i |-> i, panic |-> FALSE]
    ELSE IF i >= Len(pr) THEN [pr |-> pr, i |-> i, panic |-> TRUE]
    ELSE IF pr[i + 1].IsNumeric
         THEN [pr    |-> [pr EXCEPT ![i + 1] =
                             NewIdentifier(FormatUint(Inc64(pr[i + 1].Num)))],
               i     |-> i,
               panic |-> FALSE]
    ELSE ScanNumeric(pr, i - 1)

\* The tag step of case pre (if identifier != "").
ApplyTag(pr, identifier, identifierBase, base) ==
    IF identifier = <<>> THEN pr
    ELSE LET prerelease == IF identifierBase
                           THEN <<NewIdentifier(identifier), NewIdentifier(base)>>
                           ELSE <<NewIdentifier(identifier)>>
         IN  IF IdentifierCompare(pr[1], prerelease[1]) = 0
             THEN IF Len(prerelease) = 1 THEN prerelease ELSE pr
             ELSE prerelease

\* case pre: the version and whether the call panicked.
PreCase(v, identifier, identifierBase) ==
    LET base == IF identifierBase THEN <<"1">> ELSE <<"0">> IN
    IF ~isPreRelease(v)
    THEN [v |-> [v EXCEPT !.preRelease = <<NewIdentifier(base)>>], panic |-> FALSE]
    ELSE LET s == ScanNumeric(v.preRelease, Len(v.preRelease)) IN
         IF s.panic THEN [v |-> v, panic |-> TRUE]
         ELSE LET pr1 == IF s.i = -1 THEN Append(s.pr, NewIdentifier(base)) ELSE s.pr
              IN  [v     |-> [v EXCEPT !.preRelease =
                                 ApplyTag(pr1, identifier, identifierBase, base)],
                   panic |-> FALSE]

\* Increment: the receiver after the call, and whether the call panicked.  A
\* nested call acts on the same receiver; a panic in it ends the outer call.
RECURSIVE Increment(_, _, _, _)
Increment(v, release, identifier, identifierBase) ==
    CASE release = "PreMajor" ->
           Increment([resetPreRelease(v) EXCEPT !.patch = U64(0), !.minor = U64(0),
                                                !.major = Inc64(v.major)],
                     "pre", identifier, identifierBase)
      [] release = "PreMinor" ->
           Increment([resetPreRelease(v) EXCEPT !.patch = U64(0),
                                                !.minor = Inc64(v.minor)],
                     "pre", identifier, identifierBase)
      [] release = "PrePatch" ->
           LET r == Increment(resetPreRelease(v), "Patch", identifier, identifierBase)
           IN  IF r.panic THEN r
               ELSE Increment(r.v, "pre", identifier, identifierBase)
      [] release = "PreRelease" ->
           LET r == IF ~isPreRelease(v)
                    THEN Increment(v, "Patch", identifier, identifierBase)
                    ELSE [v |-> v, panic |-> FALSE]
           IN  IF r.panic THEN r
               ELSE Increment(r.v, "pre", identifier, identifierBase)
      [] release = "Major" -> [v |-> MajorCase(v), panic |-> FALSE]
      [] release = "Minor" -> [v |-> MinorCase(v), panic |-> FALSE]
      [] release = "Patch" -> [v |-> PatchCase(v), panic |-> FALSE]
      [] release = "pre"   -> PreCase(v, identifier, identifierBase)
      [] OTHER -> [v |-> v, panic |-> FALSE]

(***************************************************************************)
(* Comparison (compareVersion is declared in another file of the package)  *)
(***************************************************************************)
\* Element-wise comparison of two identifier sequences; when one is a prefix of
\* the other the shorter is the lesser.
RECURSIVE compareIdentifiers(_, _)
compareIdentifiers(a, b) ==
    IF Len(a) = 0 /\ Len(b) = 0 THEN 0
    ELSE IF Len(a) = 0 THEN -1
    ELSE IF Len(b) = 0 THEN 1
    ELSE LET c == IdentifierCompare(a[1], b[1]) IN
         IF c # 0 THEN c ELSE compareIdentifiers(Tail(a), Tail(b))

\* compareVersion(v, other, ignoreBuild)
compareVersion(v, o, ignoreBuild) ==
    IF U64Compare(v.major, o.major) # 0 THEN U64Compare(v.major, o.major)
    ELSE IF U64Compare(v.minor, o.minor) # 0 THEN U64Compare(v.minor, o.minor)
    ELSE IF U64Compare(v.patch, o.patch) # 0 THEN U64Compare(v.patch, o.patch)
    ELSE IF Len(v.preRelease) = 0 /\ Len(o.preRelease) > 0 THEN 1
    ELSE IF Len(v.preRelease) > 0 /\ Len(o.preRelease) = 0 THEN -1
    ELSE IF compareIdentifiers(v.preRelease, o.preRelease) # 0
         THEN compareIdentifiers(v.preRelease, o.preRelease)
    ELSE IF ignoreBuild THEN 0
    ELSE compareIdentifiers(v.build, o.build)

\* Compare passing false, as CompareWithBuildMeta does (fault injected for C5).
CompareWithBuild(v, o) == compareVersion(v, o, FALSE)

Compare(v, o) == compareVersion(v, o, TRUE)

CompareWithBuildMeta(v, o) == compareVersion(v, o, FALSE)

(***************************************************************************)
(* Inputs                                                                  *)
(***************************************************************************)
\* The number of Increment calls made on one version.
MaxCalls == 2

Alpha == <<"a", "l", "p", "h", "a">>

\* "18446744073709551615", the largest uint64
MaxStr == <<"1", "8", "4", "4", "6", "7", "4", "4", "0", "7",
            "3", "7", "0", "9", "5", "5", "1", "6", "1", "5">>

\* "18446744073709551616", one more than the largest uint64
OverStr == <<"1", "8", "4", "4", "6", "7", "4", "4", "0", "7",
             "3", "7", "0", "9", "5", "5", "1", "6", "1", "6">>

Join3(a, b, c) == a \o <<".">> \o b \o <<".">> \o c

\* 1.0.0, 1.0.3, 1.2.0, 1.2.3
SmallCores == {Join3(<<"1">>, mi, pa) : mi \in {<<"0">>, <<"2">>}, pa \in {<<"0">>, <<"3">>}}

\* none, -5, -alpha, -alpha.1
PreSuffixes == {<<>>, <<"-", "5">>, <<"-">> \o Alpha, <<"-">> \o Alpha \o <<".", "1">>}

\* +b, +b.b, +c, +01, +1
BuildSuffixes ==
    {<<"+", "b">>, <<"+", "b", ".", "b">>, <<"+", "c">>, <<"+", "0", "1">>, <<"+", "1">>}

PlainInputs == {c \o p : c \in SmallCores, p \in PreSuffixes}

BuildInputs ==
    {Join3(<<"1">>, <<"2">>, <<"3">>) \o p \o b :
        p \in {<<>>, <<"-">> \o Alpha \o <<".", "1">>}, b \in BuildSuffixes}

\* Strings that match the grammar and whose numbers all fit 64 bits.
InRangeInputs ==
    PlainInputs \cup BuildInputs \cup {Join3(MaxStr, <<"0">>, <<"0">>)}

\* Strings that match the grammar with one number beyond 64 bits.
OverflowInputs ==
    {Join3(OverStr, <<"2">>, <<"3">>), Join3(<<"1">>, OverStr, <<"3">>),
     Join3(<<"1">>, <<"2">>, OverStr)}

WellFormedInputs == InRangeInputs \cup OverflowInputs

\* "", 1.2, not-a-version, 01.2.3, 1.2.3-, 1.2.3-01, 1.2.3+, 1.2.3.4
MalformedInputs ==
    {<<>>,
     <<"1", ".", "2">>,
     <<"n", "o", "t", "-", "a", "-", "v", "e", "r", "s", "i", "o", "n">>,
     <<"0", "1", ".", "2", ".", "3">>,
     <<"1", ".", "2", ".", "3", "-">>,
     <<"1", ".", "2", ".", "3", "-", "0", "1">>,
     <<"1", ".", "2", ".", "3", "+">>,
     <<"1", ".", "2", ".", "3", ".", "4">>}

Inputs == WellFormedInputs \cup MalformedInputs

\* The identifier argument of Increment: none, or the tag alpha.
Identifiers == {<<>>, Alpha}

(***************************************************************************)
(* The state machine: a caller makes a version from a string with          *)
(* NewVersion, then calls Increment on it, or compares it with another.    *)
(***************************************************************************)
VARIABLES
    pc,        \* "start", "ready", "compared", or "panic" once a call panicked
    input,     \* the string given to NewVersion
    v,         \* the version behind the handle
    parseErr,  \* whether parse returned an error to NewVersion
    calls,     \* the Increment calls made, each with the receiver before it
    other,     \* the version v was compared with
    cmp        \* the results of Compare and CompareWithBuildMeta

vars == <<pc, input, v, parseErr, calls, other, cmp>>

Init ==
    /\ pc = "start"
    /\ input = <<>>
    /\ v = ZeroVersion
    /\ parseErr = FALSE
    /\ calls = <<>>
    /\ other = ZeroVersion
    /\ cmp = [plain |-> 0, meta |-> 0]

DoNewVersion(s) ==
    /\ pc = "start"
    /\ input' = s
    /\ v' = NewVersion(s).v
    /\ parseErr' = NewVersion(s).logged
    /\ pc' = "ready"
    /\ UNCHANGED <<calls, other, cmp>>

DoIncrement(release, identifier, identifierBase) ==
    /\ pc = "ready"
    /\ Len(calls) < MaxCalls
    /\ LET r == Increment(v, release, identifier, identifierBase) IN
       /\ v' = r.v
       /\ pc' = IF r.panic THEN "panic" ELSE "ready"
    /\ calls' = Append(calls, [release |-> release, identifier |-> identifier,
                               identifierBase |-> identifierBase, before |-> v])
    /\ UNCHANGED <<input, parseErr, other, cmp>>

DoCompare(s) ==
    /\ pc = "ready"
    /\ other' = NewVersion(s).v
    /\ cmp' = [plain |-> Compare(v, NewVersion(s).v),
               meta  |-> CompareWithBuildMeta(v, NewVersion(s).v)]
    /\ pc' = "compared"
    /\ UNCHANGED <<input, v, parseErr, calls>>

Next ==
    \/ \E s \in Inputs : DoNewVersion(s)
    \/ \E release \in PublicReleaseTypes, identifier \in Identifiers,
          identifierBase \in BOOLEAN :
          DoIncrement(release, identifier, identifierBase)

Spec == Init /\ [][Next]_vars

NextCompare ==
    \/ \E s \in Inputs : DoNewVersion(s)
    \/ \E s \in Inputs : DoCompare(s)

SpecCompare == Init /\ [][NextCompare]_vars

(***************************************************************************)
(* Claims                                                                  *)
(***************************************************************************)
HasCall == Len(calls) > 0

\* The last Increment call made, and the receiver before it.
LastCall == calls[Len(calls)]

SameNumbers(a, b) == a.major = b.major /\ a.minor = b.minor /\ a.patch = b.patch

\* C1: Increment never fails: no call with a public release type, any identifier
\* and either identifierBase ends in a panic.
C1_IncrementNeverFails == pc # "panic"

\* C2: on a version whose pre-release is [tag, n], tag non-numeric and n numeric,
\* Increment(PreRelease, tag, false) completes, leaves major, minor and patch
\* unchanged and yields the pre-release [tag, n+1].
C2_PreReleaseContinues ==
    (/\ HasCall
     /\ LastCall.release = "PreRelease"
     /\ LastCall.identifier # <<>>
     /\ LastCall.identifierBase = FALSE
     /\ Len(LastCall.before.preRelease) = 2
     /\ LastCall.before.preRelease[1] = NewIdentifier(LastCall.identifier)
     /\ ~LastCall.before.preRelease[1].IsNumeric
     /\ LastCall.before.preRelease[2].IsNumeric)
    => /\ pc = "ready"
       /\ SameNumbers(v, LastCall.before)
       /\ v.preRelease =
            <<LastCall.before.preRelease[1],
              NewIdentifier(FormatUint(Inc64(LastCall.before.preRelease[2].Num)))>>

\* C3: on a version with no pre-release, Increment(PreRelease, tag, false) with a
\* non-empty tag increments patch by one, leaves major and minor unchanged and
\* yields the pre-release [tag, 0].
C3_PreReleaseStartsTag ==
    (/\ HasCall
     /\ LastCall.release = "PreRelease"
     /\ LastCall.identifier # <<>>
     /\ LastCall.identifierBase = FALSE
     /\ LastCall.before.preRelease = <<>>)
    => /\ pc = "ready"
       /\ v.major = LastCall.before.major
       /\ v.minor = LastCall.before.minor
       /\ v.patch = Inc64(LastCall.before.patch)
       /\ v.preRelease = <<NewIdentifier(LastCall.identifier), NewIdentifier(<<"0">>)>>

\* C4: Increment(K, "", false) for K in Major, Minor, Patch completes, leaves the
\* fields above K unchanged, zeroes the fields below K, empties the pre-release,
\* and adds one to field K (uint64 addition) unless the receiver is a pre-release
\* whose fields below K are all zero, in which case field K is unchanged.
C4_ReleaseIncrement ==
    (/\ HasCall
     /\ LastCall.release \in {"Major", "Minor", "Patch"}
     /\ LastCall.identifier = <<>>
     /\ LastCall.identifierBase = FALSE)
    => LET b == LastCall.before
           pre == Len(b.preRelease) > 0
       IN  /\ pc = "ready"
           /\ v.preRelease = <<>>
           /\ LastCall.release = "Major" =>
                /\ v.major = IF pre /\ b.minor = U64(0) /\ b.patch = U64(0)
                             THEN b.major ELSE Inc64(b.major)
                /\ v.minor = U64(0)
                /\ v.patch = U64(0)
           /\ LastCall.release = "Minor" =>
                /\ v.major = b.major
                /\ v.minor = IF pre /\ b.patch = U64(0) THEN b.minor ELSE Inc64(b.minor)
                /\ v.patch = U64(0)
           /\ LastCall.release = "Patch" =>
                /\ v.major = b.major
                /\ v.minor = b.minor
                /\ v.patch = IF pre THEN b.patch ELSE Inc64(b.patch)

\* C4 witness: Major on the pre-release 1.0.0-5 gave 1.0.0 (major kept), and
\* Minor on that release then gave 1.1.0 (minor incremented).
C4_Witness ==
    /\ pc = "ready"
    /\ Len(calls) = 2
    /\ calls[1].release = "Major" /\ calls[1].identifier = <<>>
    /\ ~calls[1].identifierBase
    /\ Len(calls[1].before.preRelease) > 0
    /\ calls[1].before.major = U64(1)
    /\ calls[1].before.minor = U64(0) /\ calls[1].before.patch = U64(0)
    /\ calls[2].before.major = U64(1) /\ calls[2].before.preRelease = <<>>
    /\ calls[2].release = "Minor" /\ calls[2].identifier = <<>>
    /\ ~calls[2].identifierBase
    /\ v.major = U64(1) /\ v.minor = U64(1) /\ v.patch = U64(0)
    /\ v.preRelease = <<>>

\* The first position at which two identifier sequences differ by Identifier
\* comparison, 0 when one is a prefix of the other.
FirstDifference(a, b) ==
    LET n == IF Len(a) < Len(b) THEN Len(a) ELSE Len(b)
        D == {i \in 1..n : IdentifierCompare(a[i], b[i]) # 0}
    IN  IF D = {} THEN 0 ELSE CHOOSE i \in D : \A j \in D : i <= j

\* C5: for two versions with equal major, minor, patch and pre-release but
\* different build sequences, Compare returns 0 and CompareWithBuildMeta returns
\* the non-zero result of the first differing build identifiers, the shorter
\* sequence being the lesser when one is a prefix of the other.
C5_BuildOnlyInBuildAwareCompare ==
    (/\ pc = "compared"
     /\ SameNumbers(v, other)
     /\ v.preRelease = other.preRelease
     /\ v.build # other.build)
    => LET k == FirstDifference(v.build, other.build) IN
       /\ cmp.plain = 0
       /\ cmp.meta # 0
       /\ cmp.meta = IF k # 0 THEN IdentifierCompare(v.build[k], other.build[k])
                     ELSE IF Len(v.build) < Len(other.build) THEN -1 ELSE 1

\* C5 witness: +b compared with +b.b, a prefix, is lesser in the build-aware
\* comparison and equal in the plain one.
C5_Witness ==
    /\ pc = "compared"
    /\ SameNumbers(v, other)
    /\ v.preRelease = other.preRelease
    /\ Len(v.build) = 1 /\ Len(other.build) = 2
    /\ other.build[1] = v.build[1]
    /\ cmp.plain = 0
    /\ cmp.meta = -1

\* C6: parsing fails closed: for an input that does not match the grammar, parse
\* returns an error with the zero version and NewVersion returns a handle with
\* those zero values; for an input that matches, parse returns no error.
C6_ParseFailsClosed ==
    (pc = "ready" /\ calls = <<>>)
    => /\ input \in MalformedInputs =>
            /\ parseErr
            /\ parse(input).err
            /\ parse(input).v = ZeroVersion
            /\ v.major = U64(0) /\ v.minor = U64(0) /\ v.patch = U64(0)
            /\ Len(v.preRelease) = 0 /\ Len(v.build) = 0
       /\ input \in WellFormedInputs => ~parseErr /\ ~parse(input).err

\* C6 witness: NewVersion("1.2") returned the zero version after a parse error.
C6_Witness ==
    /\ pc = "ready"
    /\ calls = <<>>
    /\ input = <<"1", ".", "2">>
    /\ parseErr
    /\ v = ZeroVersion

\* C7: when the major, minor or patch group of a matching string denotes a number
\* beyond the unsigned 64-bit maximum, parse returns an error and no version whose
\* field holds a wrapped or clamped value.
C7_OverflowIsParseError ==
    (/\ pc = "ready"
     /\ calls = <<>>
     /\ VerRegMatch(input).ok
     /\ \/ ParseUint(VerRegMatch(input).g1).err = "range"
        \/ ParseUint(VerRegMatch(input).g2).err = "range"
        \/ ParseUint(VerRegMatch(input).g3).err = "range")
    => /\ parseErr
       /\ MaxUint64 \notin {v.major, v.minor, v.patch}

\* C8: on a version whose non-empty pre-release holds no numeric identifier,
\* Increment(PreRelease, "", identifierBase) completes, leaves major, minor, patch
\* and the existing identifiers unchanged and appends base as the last identifier.
C8_PreReleaseAppendsBase ==
    (/\ HasCall
     /\ LastCall.release = "PreRelease"
     /\ LastCall.identifier = <<>>
     /\ Len(LastCall.before.preRelease) > 0
     /\ \A i \in 1..Len(LastCall.before.preRelease) :
            ~LastCall.before.preRelease[i].IsNumeric)
    => /\ pc = "ready"
       /\ SameNumbers(v, LastCall.before)
       /\ v.preRelease =
            Append(LastCall.before.preRelease,
                   NewIdentifier(IF LastCall.identifierBase THEN <<"1">> ELSE <<"0">>))

\* The release type that finishes a pre-release type.
ReleaseOf(preK) ==
    CASE preK = "PreMajor" -> "Major"
      [] preK = "PreMinor" -> "Minor"
      [] preK = "PrePatch" -> "Patch"
      [] OTHER -> "none"

\* The receiver after the i-th call.
After(i) == IF i = Len(calls) THEN v ELSE calls[i + 1].before

\* C9: no double increment: on a version with no pre-release, Increment(PreK)
\* followed by Increment(K) completes with the major, minor, patch and empty
\* pre-release that Increment(K) alone gives, for (PreK, K) in (PreMajor, Major),
\* (PreMinor, Minor), (PrePatch, Patch) and any identifiers and identifierBase.
C9_NoDoubleIncrement ==
    \A i \in 1..(Len(calls) - 1) :
        (/\ calls[i].before.preRelease = <<>>
         /\ calls[i + 1].release = ReleaseOf(calls[i].release))
        => LET alone == Increment(calls[i].before, calls[i + 1].release,
                                  calls[i + 1].identifier, calls[i + 1].identifierBase)
           IN  /\ i + 1 = Len(calls) => pc = "ready"
               /\ ~alone.panic
               /\ SameNumbers(After(i + 1), alone.v)
               /\ After(i + 1).preRelease = <<>>
               /\ alone.v.preRelease = <<>>

\* C9 witness: 1.2.3 after PreMajor and then Major is 2.0.0.
C9_Witness ==
    /\ pc = "ready"
    /\ Len(calls) = 2
    /\ calls[1].release = "PreMajor"
    /\ calls[2].release = "Major"
    /\ calls[1].before.preRelease = <<>>
    /\ calls[1].before.major = U64(1)
    /\ calls[1].before.minor = U64(2)
    /\ Len(calls[2].before.preRelease) = 1
    /\ v.major = U64(2) /\ v.minor = U64(0) /\ v.patch = U64(0)
    /\ v.preRelease = <<>>

\* C10: Increment never changes the build metadata: after every call of any
\* sequence (completed or not) the build sequence is the one the version had
\* before the first call.
C10_BuildUnchanged ==
    \A i \in 1..Len(calls) : After(i).build = calls[1].before.build

\* C10 witness: 1.2.3-alpha.1+b.b after Patch and PreMinor still carries +b.b.
C10_Witness ==
    /\ pc = "ready"
    /\ Len(calls) = 2
    /\ calls[1].release = "Patch"
    /\ calls[2].release = "PreMinor"
    /\ Len(calls[1].before.preRelease) = 2
    /\ Len(v.preRelease) = 1
    /\ Len(v.build) = 2
    /\ v.minor = U64(3)

====
